---------------------------- MODULE Spec2Model ----------------------------
(***************************************************************************)
(* A model of klack (src/main.py): global key sounds.                      *)
(*                                                                         *)
(*   - the audio cache (_ensure_processed_wav) and the clip pools          *)
(*     (SoundPool.__init__, SoundPool._prepare_clips);                     *)
(*   - the keyboard-hook callbacks (on_press / on_release), the mute flag  *)
(*     behind _state_lock, the playback threads, the tray actions;         *)
(*   - main: start-up, the tray loop, shutdown.                            *)
(*                                                                         *)
(* Time is counted in milliseconds.  File names are sequences of character *)
(* codes, so that sorting, suffix and stem are computed as pathlib does.   *)
(***************************************************************************)
EXTENDS Integers, Sequences, FiniteSets, TLC

VARIABLES
    now,                \* the wall clock, time.time(), in ms
    fs,                 \* the source directories keydown/ and keyup/
    processed,          \* the cache directories processed/keydown, processed/keyup
    prepResult,         \* history: what the last _prepare_clips of a category returned
    lastEnsure,         \* history: the last direct call of _ensure_processed_wav
    poolState,          \* "none" | "ok" | "error": the SoundPool construction
    touches,            \* history: how often a source file was modified
    calls,              \* history: how often the loader's functions were called
    keydown_clips,      \* SoundPool.keydown_clips
    keyup_clips,        \* SoundPool.keyup_clips
    IGNORE_KEY_REPEAT,  \* the configuration switch of the key-repeat filter
    mainpc,             \* where main() is
    mixer,              \* pygame.mixer: "uninit" | "init" | "quit"
    listener,           \* keyboard.Listener: "none" | "running" | "stopped"
    tries,              \* history: how often main ran each start-up step
    sound_enabled_flag, \* _sound_enabled_flag
    state_lock,         \* _state_lock: "free", or the thread that holds it
    stop_event,         \* _stop_event
    tray,               \* the tray loop's callback _toggle_sound_action
    toggles,            \* history: how often the tray's toggle was clicked
    hook,               \* the listener thread's callback on_press / on_release
    last_press,         \* SoundPool._last_press
    last_release,       \* SoundPool._last_release
    threads,            \* the playback threads, in the order they were started
    evlog               \* history: the key events delivered, in order

fileVars == <<fs, processed, prepResult, lastEnsure, touches, calls>>
poolVars == <<poolState, keydown_clips, keyup_clips>>
loadVars == <<fileVars, poolVars>>
mainVars == <<mainpc, mixer, listener, tries, stop_event>>
muteVars == <<sound_enabled_flag, state_lock, tray, toggles>>
hookVars == <<hook, last_press, last_release, evlog>>
runVars == <<IGNORE_KEY_REPEAT, mainVars, muteVars, hookVars, threads>>
vars == <<now, loadVars, runVars>>

-----------------------------------------------------------------------------
(* Bounds of the model *)

\* The clock is not advanced past T0 + MaxTicks by the Tick action.
MaxTicks == 1
\* A source directory of the loader's runs holds at most this many entries.
MaxFiles == 2
\* The loader's functions are called at most this often in one run.
MaxCalls == 2
\* Source files are modified (touched) at most this often.
MaxTouch == 1

\* At most this many key events are delivered in one run of the program.
MaxEvents == 2
\* At most this many key events are delivered in one run of the key-repeat filter.
MaxRepeatEvents == 3
\* The tray's toggle is clicked at most this often in one run.
MaxToggles == 2

\* The threshold of the key-repeat filter: now - last < 0.005 (seconds).
MIN_INTERVAL == 5

\* The clock at program start.  time.time() is the Unix time, far above
\* any interval the program compares it with; T0 stands for it.
T0 == MIN_INTERVAL + MIN_INTERVAL

-----------------------------------------------------------------------------
(* File names: sequences of character codes *)

NameAMp3 == <<97, 46, 109, 112, 51>>        \* "a.mp3"
NameAWav == <<97, 46, 119, 97, 118>>        \* "a.wav"
NameBOgg == <<98, 46, 79, 71, 71>>          \* "b.OGG"
NameCTxt == <<99, 46, 116, 120, 116>>       \* "c.txt"

Names == {NameAMp3, NameAWav, NameBOgg, NameCTxt}

ExtWav == <<46, 119, 97, 118>>              \* ".wav"
Dot == ExtWav[1]                            \* "."

\* supported_ext of _prepare_clips
supported_ext ==
    { <<46, 109, 112, 51>>,                 \* ".mp3"
      <<46, 119, 97, 118>>,                 \* ".wav"
      <<46, 111, 103, 103>>,                \* ".ogg"
      <<46, 102, 108, 97, 99>>,             \* ".flac"
      <<46, 109, 52, 97>>,                  \* ".m4a"
      <<46, 97, 97, 99>> }                  \* ".aac"

\* str.lower() on one character code
LowerChar(c) == IF c >= 65 /\ c <= 90 THEN c + 32 ELSE c
Lower(s) == [i \in 1..Len(s) |-> LowerChar(s[i])]

\* The index of the last "." of a name, 0 when there is none (str.rfind).
LastDot(name) ==
    LET dots == {i \in 1..Len(name) : name[i] = Dot}
    IN IF dots = {} THEN 0 ELSE CHOOSE i \in dots : \A j \in dots : j <= i

\* pathlib's PurePath.suffix: from the last dot, unless the dot starts or
\* ends the name.
Suffix(name) ==
    LET i == LastDot(name)
    IN IF i > 1 /\ i < Len(name) THEN SubSeq(name, i, Len(name)) ELSE <<>>

\* pathlib's PurePath.stem: the name without its suffix.
Stem(name) ==
    LET i == LastDot(name)
    IN IF i > 1 /\ i < Len(name) THEN SubSeq(name, 1, i - 1) ELSE name

\* The order of names sorted() uses: lexicographic by character code.
RECURSIVE NameLess(_, _)
NameLess(a, b) ==
    IF b = <<>> THEN FALSE
    ELSE IF a = <<>> THEN TRUE
    ELSE IF Head(a) # Head(b) THEN Head(a) < Head(b)
    ELSE NameLess(Tail(a), Tail(b))

\* Insertion of one name into a sorted sequence.
RECURSIVE Insert(_, _)
Insert(x, s) ==
    IF s = <<>> THEN <<x>>
    ELSE IF NameLess(x, Head(s)) THEN <<x>> \o s
    ELSE <<Head(s)>> \o Insert(x, Tail(s))

\* sorted(src_dir.iterdir()) on the entries in iteration order.
RECURSIVE Sorted(_)
Sorted(s) == IF s = <<>> THEN <<>> ELSE Insert(Head(s), Sorted(Tail(s)))

\* The orders in which iterdir() may yield the entries of a directory.
IterOrders(S) ==
    {s \in [1..Cardinality(S) -> S] : \A i, j \in 1..Cardinality(S) : i # j => s[i] # s[j]}

-----------------------------------------------------------------------------
(* The file system *)

Categories == {"keydown", "keyup"}

\* kind: what is in the file.
\*   good         decodes, and its transcoded WAV loads
\*   undecodable  AudioSegment.from_file raises
\*   unloadable   decodes, but pygame.mixer.Sound raises on its WAV
\*   directory    not a regular file
Kinds == {"good", "undecodable", "unloadable", "directory"}

PastTime == T0 - 1
FutureTime == T0 + 1

\* The states a source file starts in: a file written before the program
\* started, or one whose modification time lies ahead of the clock.
FileStates ==
    { [kind |-> "good", mtime |-> PastTime],
      [kind |-> "good", mtime |-> FutureTime],
      [kind |-> "undecodable", mtime |-> PastTime],
      [kind |-> "unloadable", mtime |-> PastTime],
      [kind |-> "directory", mtime |-> PastTime] }

MissingDir == [exists |-> FALSE, entries |-> <<>>]

\* The directories with at most n entries, named from names; and no directory.
DirsOver(names, n) ==
    {MissingDir} \cup
    UNION { { [exists |-> TRUE, entries |-> e] : e \in [S -> FileStates] } :
            S \in {T \in SUBSET names : Cardinality(T) <= n} }

NoCache == <<>>

-----------------------------------------------------------------------------
(* _ensure_processed_wav *)

\* dst.exists() and dst.stat().st_mtime >= src.stat().st_mtime
UpToDate(file, dst, out) ==
    dst \in DOMAIN out /\ out[dst].mtime >= file.mtime

\* seg.export(dst, format="wav") at time t.  The cache file holds the sound
\* of src, the path <<directory, name>> of the source it was decoded from.
Export(src, file, dst, out, t) ==
    [x \in DOMAIN out \cup {dst} |->
        IF x = dst
        THEN [mtime |-> t, origin |-> src, loadable |-> file.kind # "unloadable"]
        ELSE out[x]]

\* _ensure_processed_wav(src, dst): the new cache directory, whether dst is
\* returned (ok), and whether the decoder and the export ran.
ensure_processed_wav(src, file, dst, out, t) ==
    IF UpToDate(file, dst, out)
    THEN [ok |-> TRUE, out |-> out, decoded |-> FALSE, wrote |-> FALSE]
    ELSE IF file.kind = "undecodable"
    THEN [ok |-> FALSE, out |-> out, decoded |-> TRUE, wrote |-> FALSE]
    ELSE [ok |-> TRUE, out |-> Export(src, file, dst, out, t),
          decoded |-> TRUE, wrote |-> TRUE]

-----------------------------------------------------------------------------
(* SoundPool._prepare_clips *)

\* entry.is_file() and entry.suffix.lower() in supported_ext
Supported(entry, file) ==
    file.kind # "directory" /\ Lower(Suffix(entry)) \in supported_ext

\* dst = out_dir / (entry.stem + ".wav")
DstName(entry) == Stem(entry) \o ExtWav

\* Clip(sound=pygame.mixer.Sound(str(wav))): the sound is what the cache
\* file holds, named by the source it was transcoded from.
Clip(cached) == [sound |-> cached.origin]

\* The loop of _prepare_clips over the sorted entries.  entries_for is
\* history: the entry each clip was appended for.
RECURSIVE PrepareLoop(_, _, _, _, _, _, _)
PrepareLoop(c, dir, todo, out, clips, entries_for, t) ==
    IF todo = <<>>
    THEN [clips |-> clips, out |-> out, entries_for |-> entries_for]
    ELSE LET entry == Head(todo)
             file == dir.entries[entry]
         IN IF ~Supported(entry, file)
            THEN PrepareLoop(c, dir, Tail(todo), out, clips, entries_for, t)
            ELSE LET dst == DstName(entry)
                     wav == ensure_processed_wav(<<c, entry>>, file, dst, out, t)
                 IN IF ~wav.ok
                    THEN PrepareLoop(c, dir, Tail(todo), wav.out, clips, entries_for, t)
                    ELSE IF wav.out[dst].loadable
                    THEN PrepareLoop(c, dir, Tail(todo), wav.out,
                                     Append(clips, Clip(wav.out[dst])),
                                     Append(entries_for, entry), t)
                    ELSE PrepareLoop(c, dir, Tail(todo), wav.out, clips, entries_for, t)

\* The entries in the order the loop visits them.
LoopOrder(iter) == Sorted(iter)

\* _prepare_clips(src_dir, out_dir) on the directory dir of category c,
\* iterdir() yielding the entries as iter.
prepare_clips(c, dir, out, iter, t) ==
    IF ~dir.exists
    THEN [clips |-> <<>>, out |-> out, entries_for |-> <<>>]
    ELSE PrepareLoop(c, dir, LoopOrder(iter), out, <<>>, <<>>, t)

-----------------------------------------------------------------------------
(* SoundPool.__init__ *)

\* A constructor that looks at the key-press list only.
PoolOutcomeDownOnly(down, up) == IF down = <<>> THEN "error" ELSE "ok"

\* What the constructor does with the two prepared lists: it raises
\* FileNotFoundError when one of them is empty, and no SoundPool exists.
PoolOutcome(down, up) == IF down = <<>> \/ up = <<>> THEN "error" ELSE "ok"

\* SoundPool(keydown_dir, keyup_dir).  Both categories are prepared before
\* either list is looked at.
SoundPoolInit ==
    /\ poolState = "none"
    /\ \E iterD \in IterOrders(DOMAIN fs["keydown"].entries),
          iterU \in IterOrders(DOMAIN fs["keyup"].entries) :
          LET down == prepare_clips("keydown", fs["keydown"], processed["keydown"], iterD, now)
              up == prepare_clips("keyup", fs["keyup"], processed["keyup"], iterU, now)
              outcome == PoolOutcome(down.clips, up.clips)
          IN /\ processed' = [keydown |-> down.out, keyup |-> up.out]
             /\ prepResult' = [keydown |-> [done |-> TRUE, clips |-> down.clips,
                                             entries_for |-> down.entries_for],
                                keyup |-> [done |-> TRUE, clips |-> up.clips,
                                           entries_for |-> up.entries_for]]
             /\ poolState' = outcome
             /\ keydown_clips' = IF outcome = "ok" THEN down.clips ELSE <<>>
             /\ keyup_clips' = IF outcome = "ok" THEN up.clips ELSE <<>>
    /\ UNCHANGED <<fs, lastEnsure, touches, calls>>

-----------------------------------------------------------------------------
(* The cache and the pools on their own: the calls a test of the loader makes *)

NoCall == [c |-> "none", src |-> <<>>, ok |-> FALSE, decoded |-> FALSE,
           wrote |-> FALSE, second |-> FALSE]

NotPrepared == [done |-> FALSE, clips |-> <<>>, entries_for |-> <<>>]

\* The program is not running.
NotRunning ==
    /\ IGNORE_KEY_REPEAT = FALSE
    /\ mainpc = "not_started"
    /\ mixer = "init"
    /\ listener = "none"
    /\ tries = [mixer |-> 0, pool |-> 0]
    /\ sound_enabled_flag = TRUE
    /\ state_lock = "free"
    /\ stop_event = FALSE
    /\ tray = [pc |-> "idle", val |-> TRUE]
    /\ toggles = 0
    /\ hook = [pc |-> "idle", type |-> "none", key |-> <<>>]
    /\ last_press = <<>>
    /\ last_release = <<>>
    /\ threads = <<>>
    /\ evlog = <<>>

LoaderStart ==
    /\ now = T0
    /\ processed = [c \in Categories |-> NoCache]
    /\ prepResult = [c \in Categories |-> NotPrepared]
    /\ lastEnsure = NoCall
    /\ touches = 0
    /\ calls = 0
    /\ poolState = "none"
    /\ keydown_clips = <<>>
    /\ keyup_clips = <<>>

\* The cache functions are run on one category directory.
CacheInit ==
    /\ fs \in [keydown : DirsOver(Names, MaxFiles), keyup : {MissingDir}]
    /\ LoaderStart
    /\ NotRunning

\* The constructor is run on two directories.
PoolInit ==
    /\ fs \in [keydown : DirsOver(Names, MaxFiles), keyup : DirsOver({NameAMp3}, MaxFiles)]
    /\ LoaderStart
    /\ NotRunning

\* Time passes.
Tick ==
    /\ now < T0 + MaxTicks
    /\ now' = now + 1
    /\ UNCHANGED <<loadVars, runVars>>

\* A source file is modified: its modification time becomes the clock's.
TouchSource(c, n) ==
    /\ touches < MaxTouch
    /\ fs[c].exists /\ n \in DOMAIN fs[c].entries
    /\ fs[c].entries[n].kind # "directory"
    /\ fs' = [fs EXCEPT ![c].entries[n].mtime = now]
    /\ touches' = touches + 1
    /\ lastEnsure' = NoCall
    /\ UNCHANGED <<now, processed, prepResult, calls, poolVars, runVars>>

\* _ensure_processed_wav(src, dst) on one supported file of a category,
\* with the dst _prepare_clips gives it.
EnsureCall(c, n) ==
    /\ calls < MaxCalls
    /\ calls' = calls + 1
    /\ fs[c].exists /\ n \in DOMAIN fs[c].entries
    /\ Supported(n, fs[c].entries[n])
    /\ LET r == ensure_processed_wav(<<c, n>>, fs[c].entries[n], DstName(n), processed[c], now)
       IN /\ processed' = [processed EXCEPT ![c] = r.out]
          /\ lastEnsure' = [c |-> c, src |-> n, ok |-> r.ok, decoded |-> r.decoded,
                            wrote |-> r.wrote,
                            second |-> lastEnsure.c = c /\ lastEnsure.src = n /\ lastEnsure.ok]
    /\ UNCHANGED <<now, fs, prepResult, touches, poolVars, runVars>>

\* _prepare_clips(src_dir, out_dir) on one category.
PrepareCall(c) ==
    /\ calls < MaxCalls
    /\ calls' = calls + 1
    /\ \E iter \in IterOrders(DOMAIN fs[c].entries) :
          LET r == prepare_clips(c, fs[c], processed[c], iter, now)
          IN /\ processed' = [processed EXCEPT ![c] = r.out]
             /\ prepResult' = [prepResult EXCEPT ![c] =
                                  [done |-> TRUE, clips |-> r.clips, entries_for |-> r.entries_for]]
    /\ lastEnsure' = NoCall
    /\ UNCHANGED <<now, fs, touches, poolVars, runVars>>

\* SoundPool(keydown_dir, keyup_dir) called on the two directories.
Construct == SoundPoolInit /\ UNCHANGED <<now, runVars>>

CacheNext ==
    \/ Tick
    \/ \E c \in Categories, n \in Names : TouchSource(c, n)
    \/ \E c \in Categories, n \in Names : EnsureCall(c, n)
    \/ \E c \in Categories : PrepareCall(c)

SpecCache == CacheInit /\ [][CacheNext]_vars

PoolNext ==
    \/ Tick
    \/ Construct

SpecPool == PoolInit /\ [][PoolNext]_vars

-----------------------------------------------------------------------------
(* Keys *)

\* A key as pynput hands it to the callbacks.  vk is the attribute vk (0 when
\* the object has none, or None, or 0: all are false to "or"); value is the
\* attribute value of a Key member ("" when the object has none); str is
\* str(key).
KeyChar == [vk |-> 97, value |-> "", str |-> "'a'"]                  \* KeyCode(vk=97, char='a')
KeyShift == [vk |-> 0, value |-> "<65505>", str |-> "Key.shift"]     \* Key.shift

Keys == {KeyChar, KeyShift}

EventTypes == {"press", "release"}

\* k = getattr(key, "vk", None) or getattr(key, "value", None) or str(key)
KeyId(key) ==
    IF key.vk # 0 THEN <<"vk", key.vk>>
    ELSE IF key.value # "" THEN <<"value", key.value>>
    ELSE <<"str", key.str>>

\* The time between one key event and the next, in ms.
Deltas == {MIN_INTERVAL - 1, MIN_INTERVAL}

-----------------------------------------------------------------------------
(* The mute flag: sound_enabled, set_sound_enabled, _toggle_sound_action *)

\* A lock that excludes nobody.
CanAcquireHeld(lock) == TRUE

\* with _state_lock: the block is entered only when no thread holds the lock.
CanAcquire(lock) == lock = "free"

\* A with block that keeps the lock on leaving.
ReleaseNot(lock) == lock

\* with _state_lock: the lock is released when the block is left.
Release(lock) == "free"

\* set_sound_enabled has been called and has not returned.
SetInProgress == tray.pc \in {"set", "set_locked"}

\* A click on "Toggle Sound": the tray loop calls _toggle_sound_action.
ToggleStart ==
    /\ mainpc = "tray"
    /\ tray.pc = "idle"
    /\ toggles < MaxToggles
    /\ toggles' = toggles + 1
    /\ tray' = [tray EXCEPT !.pc = "get"]
    /\ UNCHANGED <<now, loadVars, IGNORE_KEY_REPEAT, mainVars, sound_enabled_flag,
                   state_lock, hookVars, threads>>

\* sound_enabled(): with _state_lock
TrayGetAcquire ==
    /\ tray.pc = "get"
    /\ CanAcquire(state_lock)
    /\ state_lock' = "tray"
    /\ tray' = [tray EXCEPT !.pc = "get_locked"]
    /\ UNCHANGED <<now, loadVars, IGNORE_KEY_REPEAT, mainVars, sound_enabled_flag,
                   toggles, hookVars, threads>>

\* A menu item that always mutes.
ToggledOff(enabled) == FALSE

\* not sound_enabled(): the value _toggle_sound_action hands to
\* set_sound_enabled.
Toggled(enabled) == ~enabled

\* sound_enabled(): return _sound_enabled_flag.  set_sound_enabled(not ...)
\* is called with the value read; a callback that has not read the flag yet
\* now runs beside a write of it.
TrayGetRead ==
    /\ tray.pc = "get_locked"
    /\ state_lock' = Release(state_lock)
    /\ tray' = [pc |-> "set", val |-> Toggled(sound_enabled_flag)]
    /\ evlog' = IF hook.pc \in {"gate", "gate_locked"}
                THEN [evlog EXCEPT ![Len(evlog)].win = "racing"]
                ELSE evlog
    /\ UNCHANGED <<now, loadVars, IGNORE_KEY_REPEAT, mainVars, sound_enabled_flag,
                   toggles, hook, last_press, last_release, threads>>

\* set_sound_enabled(val): with _state_lock
TraySetAcquire ==
    /\ tray.pc = "set"
    /\ CanAcquire(state_lock)
    /\ state_lock' = "tray"
    /\ tray' = [tray EXCEPT !.pc = "set_locked"]
    /\ UNCHANGED <<now, loadVars, IGNORE_KEY_REPEAT, mainVars, sound_enabled_flag,
                   toggles, hookVars, threads>>

\* set_sound_enabled(val): _sound_enabled_flag = val
TraySetWrite ==
    /\ tray.pc = "set_locked"
    /\ sound_enabled_flag' = tray.val
    /\ state_lock' = Release(state_lock)
    /\ tray' = [tray EXCEPT !.pc = "idle"]
    /\ UNCHANGED <<now, loadVars, IGNORE_KEY_REPEAT, mainVars, toggles, hookVars, threads>>

-----------------------------------------------------------------------------
(* SoundPool.on_press / SoundPool.on_release, on the listener's thread *)

\* The process runs: main has not returned.
Alive == mainpc \notin {"not_started", "returned", "done"}

\* What a callback that starts now can rely on: "muted" after a completed
\* set_sound_enabled(False), "enabled" after a completed
\* set_sound_enabled(True) or before any, "racing" beside a write.
Window ==
    IF SetInProgress THEN "racing"
    ELSE IF sound_enabled_flag THEN "enabled" ELSE "muted"

\* The pynput listener calls on_press(key) or on_release(key), dt after the
\* event before.
HookDeliver(type, key, dt) ==
    /\ Alive
    /\ listener = "running"
    /\ hook.pc = "idle"
    /\ now' = now + dt
    /\ hook' = [pc |-> "gate", type |-> type, key |-> key]
    /\ evlog' = Append(evlog, [type |-> type, k |-> KeyId(key), t |-> now + dt,
                               win |-> Window, outcome |-> "pending"])
    /\ UNCHANGED <<loadVars, IGNORE_KEY_REPEAT, mainVars, muteVars,
                   last_press, last_release, threads>>

\* sound_enabled(): with _state_lock
HookGateAcquire ==
    /\ Alive
    /\ hook.pc = "gate"
    /\ CanAcquire(state_lock)
    /\ state_lock' = "hook"
    /\ hook' = [hook EXCEPT !.pc = "gate_locked"]
    /\ UNCHANGED <<now, loadVars, IGNORE_KEY_REPEAT, mainVars, sound_enabled_flag,
                   tray, toggles, last_press, last_release, evlog, threads>>

\* A callback without the mute check.
gate_passes_always(enabled) == TRUE

\* if not sound_enabled(): return
gate_passes(enabled) == enabled

\* The outcome recorded for the event the callback is handling.
SetOutcome(o) == [evlog EXCEPT ![Len(evlog)].outcome = o]

\* sound_enabled() returns the flag and the callback returns, or goes on to
\* the key-repeat filter (if IGNORE_KEY_REPEAT) or to the thread's start.
HookGateRead ==
    /\ Alive
    /\ hook.pc = "gate_locked"
    /\ state_lock' = Release(state_lock)
    /\ IF ~gate_passes(sound_enabled_flag)
       THEN hook' = [hook EXCEPT !.pc = "idle"] /\ evlog' = SetOutcome("muted")
       ELSE IF IGNORE_KEY_REPEAT
       THEN hook' = [hook EXCEPT !.pc = "repeat"] /\ evlog' = evlog
       ELSE hook' = [hook EXCEPT !.pc = "spawn"] /\ evlog' = SetOutcome("accepted")
    /\ UNCHANGED <<now, loadVars, IGNORE_KEY_REPEAT, mainVars, sound_enabled_flag,
                   tray, toggles, last_press, last_release, threads>>

\* dict.get(k, default)
Get(d, k, default) == IF k \in DOMAIN d THEN d[k] ELSE default

\* d[k] = v
Put(d, k, v) == [x \in DOMAIN d \cup {k} |-> IF x = k THEN v ELSE d[x]]

\* A filter whose threshold is below one tick of the clock.
RepeatFilteredSameTick(t, last) == t - last < 1

\* if now - last < 0.005: return
RepeatFiltered(t, last) == t - last < MIN_INTERVAL

\* A filter that stores the time of every event, rejected or not.
StoreAlways(d, k, t, rejected) == Put(d, k, t)

\* A filter that never stores a timestamp.
StoreNever(d, k, t, rejected) == d

\* self._last_press[k] = now, reached only when the event is not rejected
Store(d, k, t, rejected) == IF rejected THEN d ELSE Put(d, k, t)

\* One dictionary for the presses and the releases.
TimestampsShared(type) == last_press

\* on_press reads self._last_press, on_release self._last_release.
Timestamps(type) == IF type = "press" THEN last_press ELSE last_release

\* The key-repeat filter of on_press (on _last_press) and of on_release (on
\* _last_release).
HookRepeat ==
    /\ Alive
    /\ hook.pc = "repeat"
    /\ LET k == KeyId(hook.key)
           d == Timestamps(hook.type)
           rejected == RepeatFiltered(now, Get(d, k, 0))
       IN /\ last_press' = IF hook.type = "press" THEN Store(d, k, now, rejected)
                           ELSE last_press
          /\ last_release' = IF hook.type = "release" THEN Store(d, k, now, rejected)
                             ELSE last_release
          /\ hook' = [hook EXCEPT !.pc = IF rejected THEN "idle" ELSE "spawn"]
          /\ evlog' = SetOutcome(IF rejected THEN "repeat" ELSE "accepted")
    /\ UNCHANGED <<now, loadVars, IGNORE_KEY_REPEAT, mainVars, muteVars, threads>>

\* Callbacks that all hand the key-press list to _play_random.
ClipsArgDown(type) == "keydown"

\* The list on_press (keydown_clips) and on_release (keyup_clips) hand to
\* _play_random.
ClipsArg(type) == IF type = "press" THEN "keydown" ELSE "keyup"

\* A callback that waits for the thread it has started: t.join().
AfterStartJoin == "join"

\* Where the callback is after Thread(...).start(): it returns, the thread
\* left to itself.
AfterStart == "idle"

\* threading.Thread(target=self._play_random, args=(clips,), daemon=True).start()
HookSpawn ==
    /\ Alive
    /\ hook.pc = "spawn"
    /\ threads' = Append(threads, [pc |-> "start", clips |-> ClipsArg(hook.type),
                                   clip |-> <<>>, ev |-> Len(evlog)])
    /\ hook' = [hook EXCEPT !.pc = AfterStart]
    /\ UNCHANGED <<now, loadVars, IGNORE_KEY_REPEAT, mainVars, muteVars,
                   last_press, last_release, evlog>>

-----------------------------------------------------------------------------
(* SoundPool._play_random / SoundPool._play_clip, on a playback thread *)

PoolClips(c) == IF c = "keydown" THEN keydown_clips ELSE keyup_clips

\* Whether clip.sound.play() raises: always on a mixer that has been quit,
\* sometimes on a running one (a backend error).
PlayRaises == IF mixer = "init" THEN BOOLEAN ELSE {TRUE}

\* _play_clip without its try/except: the exception ends the thread.
play_clip_uncaught(raised) == IF raised THEN "crashed" ELSE "played"

\* _play_clip: how the thread ends.  "failed": play() raised, the exception
\* was caught and printed.
play_clip(raised) == IF raised THEN "failed" ELSE "played"

\* _play_random(clips): random.choice raises IndexError on an empty list,
\* which nothing catches.
PlayRandom(i) ==
    /\ Alive
    /\ threads[i].pc = "start"
    /\ LET clips == PoolClips(threads[i].clips)
       IN IF clips = <<>>
          THEN threads' = [threads EXCEPT ![i].pc = "crashed"]
          ELSE \E c \in 1..Len(clips), raised \in PlayRaises :
                  threads' = [threads EXCEPT ![i].pc = play_clip(raised),
                                             ![i].clip = clips[c].sound]
    /\ UNCHANGED <<now, loadVars, IGNORE_KEY_REPEAT, mainVars, muteVars, hookVars>>

-----------------------------------------------------------------------------
(* main *)

\* A directory whose two files decode and load.
GoodDir ==
    [exists |-> TRUE, entries |-> [n \in {NameAMp3, NameBOgg} |-> [kind |-> "good", mtime |-> PastTime]]]

\* The input directories main is started on.
MainDirs ==
    { MissingDir,
      [exists |-> TRUE, entries |-> [n \in {NameCTxt} |-> [kind |-> "good", mtime |-> PastTime]]],
      [exists |-> TRUE, entries |-> [n \in {NameAMp3} |-> [kind |-> "undecodable", mtime |-> PastTime]]],
      GoodDir }

Init ==
    /\ fs \in [Categories -> MainDirs]
    /\ LoaderStart
    /\ IGNORE_KEY_REPEAT \in BOOLEAN
    /\ mainpc = "init_mixer"
    /\ mixer = "uninit"
    /\ listener = "none"
    /\ tries = [mixer |-> 0, pool |-> 0]
    /\ sound_enabled_flag = TRUE
    /\ state_lock = "free"
    /\ stop_event = FALSE
    /\ tray = [pc |-> "idle", val |-> TRUE]
    /\ toggles = 0
    /\ hook = [pc |-> "idle", type |-> "none", key |-> <<>>]
    /\ last_press = <<>>
    /\ last_release = <<>>
    /\ threads = <<>>
    /\ evlog = <<>>

\* try: _init_pygame_mixer() / except: print(e); return
AfterInitMixer(ok) == IF ok THEN "check_dirs" ELSE "returned"

\* _init_pygame_mixer(): pygame.mixer.init() succeeds or raises.
InitMixer ==
    /\ mainpc = "init_mixer"
    /\ \E ok \in BOOLEAN :
          /\ mixer' = IF ok THEN "init" ELSE "uninit"
          /\ mainpc' = AfterInitMixer(ok)
    /\ tries' = [tries EXCEPT !.mixer = @ + 1]
    /\ UNCHANGED <<now, loadVars, IGNORE_KEY_REPEAT, listener, stop_event,
                   muteVars, hookVars, threads>>

\* if not KEYDOWN_DIR.exists() or not KEYUP_DIR.exists(): return
CheckDirs ==
    /\ mainpc = "check_dirs"
    /\ mainpc' = IF ~fs["keydown"].exists \/ ~fs["keyup"].exists
                 THEN "returned" ELSE "make_pool"
    /\ UNCHANGED <<now, loadVars, IGNORE_KEY_REPEAT, mixer, listener, tries, stop_event,
                   muteVars, hookVars, threads>>

\* main that goes on after the SoundPool constructor has raised.
AfterMakePoolGoOn(outcome) == "start_listener"

\* try: pool = SoundPool(...) / except: print(...); return
AfterMakePool(outcome) == IF outcome = "ok" THEN "start_listener" ELSE "returned"

\* pool = SoundPool(KEYDOWN_DIR, KEYUP_DIR)
MakePool ==
    /\ mainpc = "make_pool"
    /\ SoundPoolInit
    /\ mainpc' = AfterMakePool(poolState')
    /\ tries' = [tries EXCEPT !.pool = @ + 1]
    /\ UNCHANGED <<now, IGNORE_KEY_REPEAT, mixer, listener, stop_event,
                   muteVars, hookVars, threads>>

\* listener = keyboard.Listener(...); listener.start(); the signal handlers
\* are installed and the tray loop is entered.
StartListener ==
    /\ mainpc = "start_listener"
    /\ listener' = "running"
    /\ mainpc' = "tray"
    /\ UNCHANGED <<now, loadVars, IGNORE_KEY_REPEAT, mixer, tries, stop_event,
                   muteVars, hookVars, threads>>

\* A click on "Quit": _quit_action sets _stop_event and stops the icon.
QuitAction ==
    /\ mainpc = "tray"
    /\ tray.pc = "idle"
    /\ ~stop_event
    /\ stop_event' = TRUE
    /\ UNCHANGED <<now, loadVars, IGNORE_KEY_REPEAT, mainpc, mixer, listener, tries,
                   muteVars, hookVars, threads>>

\* SIGINT or SIGTERM: _handle_sig sets _stop_event and has a thread stop the
\* icon.
HandleSig ==
    /\ mainpc = "tray"
    /\ ~stop_event
    /\ stop_event' = TRUE
    /\ UNCHANGED <<now, loadVars, IGNORE_KEY_REPEAT, mainpc, mixer, listener, tries,
                   muteVars, hookVars, threads>>

\* _run_tray_mainloop() returns once the icon is stopped and no callback of
\* the loop is running.
TrayLoopExit ==
    /\ mainpc = "tray"
    /\ stop_event
    /\ tray.pc = "idle"
    /\ mainpc' = "stop_listener"
    /\ UNCHANGED <<now, loadVars, IGNORE_KEY_REPEAT, mixer, listener, tries, stop_event,
                   muteVars, hookVars, threads>>

\* listener.stop(): no further event is delivered; a callback that is
\* running goes on.
StopListener ==
    /\ mainpc = "stop_listener"
    /\ listener' = "stopped"
    /\ mainpc' = "mixer_quit"
    /\ UNCHANGED <<now, loadVars, IGNORE_KEY_REPEAT, mixer, tries, stop_event,
                   muteVars, hookVars, threads>>

\* pygame.mixer.quit()
MixerQuit ==
    /\ mainpc = "mixer_quit"
    /\ mixer' = "quit"
    /\ mainpc' = "cleanup"
    /\ UNCHANGED <<now, loadVars, IGNORE_KEY_REPEAT, listener, tries, stop_event,
                   muteVars, hookVars, threads>>

\* The tray icon is hidden and stopped, main returns and the process ends,
\* and its daemon threads with it.
Cleanup ==
    /\ mainpc = "cleanup"
    /\ mainpc' = "done"
    /\ UNCHANGED <<now, loadVars, IGNORE_KEY_REPEAT, mixer, listener, tries, stop_event,
                   muteVars, hookVars, threads>>

Next ==
    \/ InitMixer
    \/ CheckDirs
    \/ MakePool
    \/ StartListener
    \/ \E type \in EventTypes, key \in Keys, dt \in Deltas :
          Len(evlog) < MaxEvents /\ HookDeliver(type, key, dt)
    \/ HookGateAcquire
    \/ HookGateRead
    \/ HookRepeat
    \/ HookSpawn
    \/ \E i \in 1..Len(threads) : PlayRandom(i)
    \/ ToggleStart
    \/ TrayGetAcquire
    \/ TrayGetRead
    \/ TraySetAcquire
    \/ TraySetWrite
    \/ QuitAction
    \/ HandleSig
    \/ TrayLoopExit
    \/ StopListener
    \/ MixerQuit
    \/ Cleanup

Spec == Init /\ [][Next]_vars

\* A step of the callback that is running on the listener's thread.
HookStep == HookGateAcquire \/ HookGateRead \/ HookRepeat \/ HookSpawn

\* The program with its scheduling: the listener's thread gets to run, and
\* whoever holds _state_lock gets to leave the with block.  Nothing is
\* assumed of the playback threads: a play command may never return.
SpecLive ==
    /\ Spec
    /\ WF_vars(HookGateAcquire)
    /\ WF_vars(HookGateRead)
    /\ WF_vars(HookRepeat)
    /\ WF_vars(HookSpawn)
    /\ WF_vars(TrayGetRead)
    /\ WF_vars(TraySetWrite)

-----------------------------------------------------------------------------
(* The key-repeat filter at work: the program with IGNORE_KEY_REPEAT set,   *)
(* on input directories that load, up to the tray loop's end.  The playback *)
(* threads are started and not run: they touch nothing the callbacks read.  *)

RepeatInit ==
    /\ Init
    /\ IGNORE_KEY_REPEAT = TRUE
    /\ fs = [c \in Categories |-> GoodDir]

RepeatNext ==
    \/ InitMixer
    \/ CheckDirs
    \/ MakePool
    \/ StartListener
    \/ \E type \in EventTypes, key \in Keys, dt \in Deltas :
          Len(evlog) < MaxRepeatEvents /\ HookDeliver(type, key, dt)
    \/ HookGateAcquire
    \/ HookGateRead
    \/ HookRepeat
    \/ HookSpawn
    \/ ToggleStart
    \/ TrayGetAcquire
    \/ TrayGetRead
    \/ TraySetAcquire
    \/ TraySetWrite

SpecRepeat == RepeatInit /\ [][RepeatNext]_vars

-----------------------------------------------------------------------------
(* Properties of the cache and the pools *)

\* The supported regular files of a directory.
SupportedFiles(dir) ==
    IF dir.exists THEN {n \in DOMAIN dir.entries : Supported(n, dir.entries[n])} ELSE {}

\* The files that decode and whose WAV loads.
ValidFiles(dir) == {n \in SupportedFiles(dir) : dir.entries[n].kind = "good"}

\* C4: when the construction of a SoundPool succeeds both pools hold at
\* least one clip; when a category yields no clip (a missing directory, no
\* supported file, or only files that fail to transcode or load) the
\* construction raises and no pool exists.
C4_NonEmptyPools ==
    /\ poolState = "ok" =>
          /\ keydown_clips # <<>> /\ keyup_clips # <<>>
          /\ keydown_clips = prepResult["keydown"].clips
          /\ keyup_clips = prepResult["keyup"].clips
    /\ poolState # "none" =>
          /\ (\E c \in Categories : prepResult[c].clips = <<>>) => poolState = "error"
          /\ (\E c \in Categories : ValidFiles(fs[c]) = {}) => poolState = "error"
    /\ poolState = "error" => keydown_clips = <<>> /\ keyup_clips = <<>>

\* C4's case: the key-press category yields clips, the key-release category
\* none, and the construction has raised.
C4_Witness ==
    /\ poolState = "error"
    /\ prepResult["keydown"].clips # <<>>
    /\ prepResult["keyup"].clips = <<>>
    /\ fs["keyup"].exists

\* C5: a second call of _ensure_processed_wav on an unmodified source, after
\* a first call that returned the cache file, takes the fast path: it neither
\* decodes nor writes.
C5_CacheIdempotent ==
    lastEnsure.second => ~lastEnsure.decoded /\ ~lastEnsure.wrote

\* C6: every clip a directory's processing yields holds the sound of the
\* source file it was made for: no source reuses or overwrites the cache
\* entry of another.
C6_OwnCacheEntry ==
    \A c \in Categories :
        prepResult[c].done =>
            \A i \in 1..Len(prepResult[c].clips) :
                prepResult[c].clips[i].sound = <<c, prepResult[c].entries_for[i]>>

\* C7: the pool _prepare_clips returns has one clip per file that decodes
\* and loads, in the lexicographic order of the file names.
C7_PoolContents ==
    \A c \in Categories :
        prepResult[c].done =>
            /\ Len(prepResult[c].clips) = Cardinality(ValidFiles(fs[c]))
            /\ \A i, j \in 1..Len(prepResult[c].entries_for) :
                    i < j => NameLess(prepResult[c].entries_for[i], prepResult[c].entries_for[j])

-----------------------------------------------------------------------------
(* Properties of the running program *)

Events == 1..Len(evlog)

\* The event j has a playback thread.
Dispatched(j) == \E i \in 1..Len(threads) : threads[i].ev = j

\* The callback of event j has returned.
Returned(j) == j < Len(evlog) \/ hook.pc = "idle"

\* C1: a callback that starts after a completed set_sound_enabled(False),
\* with no set_sound_enabled(True) called before it reads the flag, gets no
\* playback thread; a callback that starts with sound enabled, with no
\* set_sound_enabled(False) called before it reads the flag, is not dropped
\* by the mute check, and once it is accepted and has returned it has its
\* playback thread.
C1_MuteGate ==
    /\ \A j \in Events :
          evlog[j].win = "muted" => evlog[j].outcome \in {"pending", "muted"} /\ ~Dispatched(j)
    /\ \A j \in Events :
          evlog[j].win = "enabled" =>
              /\ evlog[j].outcome # "muted"
              /\ (evlog[j].outcome = "accepted" /\ Returned(j)) => Dispatched(j)

\* C1's case: an event that arrived muted was dropped, and after the second
\* toggle a later event has its playback thread.
C1_Witness ==
    /\ toggles = MaxToggles
    /\ \E i, j \in Events :
          /\ i < j
          /\ evlog[i].win = "muted" /\ evlog[i].outcome = "muted"
          /\ evlog[j].win = "enabled" /\ Dispatched(j)

SameCell(i, j) == evlog[i].type = evlog[j].type /\ evlog[i].k = evlog[j].k

\* i and j are consecutive events of one key and one event type.
Consecutive(i, j) ==
    /\ i < j
    /\ SameCell(i, j)
    /\ \A m \in Events : (i < m /\ m < j) => ~SameCell(m, j)

Accepted(j) == evlog[j].outcome = "accepted"

\* C2, as claimed: of two consecutive events of one key and type less than
\* MIN_INTERVAL apart, the second is rejected, whatever became of the first.
C2_RejectedRegardless ==
    IGNORE_KEY_REPEAT =>
        \A i, j \in Events :
            (Consecutive(i, j) /\ evlog[j].t - evlog[i].t < MIN_INTERVAL) =>
                ~Accepted(j) /\ ~Dispatched(j)

\* C2, amended: of two consecutive events of one key and type less than
\* MIN_INTERVAL apart, the second is rejected when the first was accepted.
C2_RejectedAfterAccepted ==
    IGNORE_KEY_REPEAT =>
        \A i, j \in Events :
            (Consecutive(i, j) /\ evlog[j].t - evlog[i].t < MIN_INTERVAL /\ Accepted(i)) =>
                ~Accepted(j) /\ ~Dispatched(j)

\* C2's case: an accepted event, and the next of its key and type, less than
\* MIN_INTERVAL later, rejected by the filter.
C2_Witness ==
    /\ IGNORE_KEY_REPEAT
    /\ \E i, j \in Events :
          /\ Consecutive(i, j) /\ evlog[j].t - evlog[i].t < MIN_INTERVAL
          /\ Accepted(i) /\ Dispatched(i)
          /\ evlog[j].outcome = "repeat"

\* The greatest element of a non-empty set of numbers.
Latest(S) == CHOOSE i \in S : \A m \in S : m <= i

\* The accepted events of a key and type.
AcceptedOf(type, k) ==
    {i \in Events : evlog[i].type = type /\ evlog[i].k = k /\ Accepted(i)}

\* The time of the last accepted event of j's key and type before j; 0, the
\* default of dict.get, when there is none.
LastAcceptedBefore(j) ==
    LET S == {i \in AcceptedOf(evlog[j].type, evlog[j].k) : i < j}
    IN IF S = {} THEN 0 ELSE evlog[Latest(S)].t

\* The event j has passed the mute check and the filter has decided on it.
Decided(j) == evlog[j].outcome \in {"repeat", "accepted"}

StoredIn(type) == IF type = "press" THEN last_press ELSE last_release

\* C3: with the filter on, an event that passed the mute check is rejected
\* iff it comes less than MIN_INTERVAL after the last accepted event of its
\* key and type; the stored timestamp of a key and type is the time of its
\* most recent accepted event (none is stored before the first); an event at
\* least MIN_INTERVAL after the previous event of its key and type is
\* accepted.
C3_DebouncePolicy ==
    IGNORE_KEY_REPEAT =>
        /\ \A j \in Events :
              Decided(j) =>
                  (evlog[j].outcome = "repeat" <=> evlog[j].t - LastAcceptedBefore(j) < MIN_INTERVAL)
        /\ \A type \in EventTypes, key \in Keys :
              LET k == KeyId(key)
                  S == AcceptedOf(type, k)
              IN IF S = {} THEN k \notin DOMAIN StoredIn(type)
                 ELSE k \in DOMAIN StoredIn(type) /\ StoredIn(type)[k] = evlog[Latest(S)].t
        /\ \A i, j \in Events :
              (Consecutive(i, j) /\ Decided(j) /\ evlog[j].t - evlog[i].t >= MIN_INTERVAL) =>
                  Accepted(j)

\* C3's case: an event was rejected, the next of its key and type accepted,
\* and the timestamp stored is the later one's.
C3_Witness ==
    /\ IGNORE_KEY_REPEAT
    /\ \E i, j \in Events :
          /\ Consecutive(i, j)
          /\ evlog[i].outcome = "repeat"
          /\ Accepted(j)
          /\ StoredIn(evlog[j].type)[evlog[j].k] = evlog[j].t

\* The playback thread i issues its play command in this step.
Plays(i) == threads[i].pc = "start" /\ threads'[i].pc \in {"played", "failed", "crashed"}

\* C8: a play command that raises ends its thread normally, the exception
\* caught; the step changes nothing but that thread: not the callback of the
\* listener, the mute flag and its lock, the filter's timestamps, the pools,
\* the other threads or main.
C8_PlaybackFailureIsolated ==
    [][\A i \in 1..Len(threads) :
          (Plays(i) /\ threads'[i].pc # "played") =>
              /\ threads'[i].pc = "failed"
              /\ \A o \in 1..Len(threads) : o # i => threads'[o] = threads[o]
              /\ Len(threads') = Len(threads)
              /\ UNCHANGED <<hookVars, muteVars, mainVars, poolVars, IGNORE_KEY_REPEAT>>]_vars

\* C8's case: on a running mixer the first event's play command raised, and
\* the second event's thread has played.
C8_Witness ==
    /\ mixer = "init"
    /\ Len(threads) = 2
    /\ threads[1].pc = "failed"
    /\ threads[2].pc = "played"

\* C9: the mixer is quit only after the listener is stopped, and no playback
\* thread issues a play command on a mixer that has been quit.
C9_ShutdownSafety ==
    [][/\ mixer' = "quit" => listener' = "stopped"
       /\ \A i \in 1..Len(threads) : Plays(i) => mixer = "init"]_vars

\* A start-up step has failed: the mixer's initialisation, the check of the
\* input directories, or the loading of the pools.
FatalStartup ==
    \/ mainpc # "init_mixer" /\ mixer = "uninit"
    \/ mainpc \notin {"init_mixer", "check_dirs"} /\ \E c \in Categories : ~fs[c].exists
    \/ prepResult["keydown"].done /\ prepResult["keydown"].clips = <<>>
    \/ prepResult["keyup"].done /\ prepResult["keyup"].clips = <<>>

\* C10: after a failed start-up step main has returned, the listener was
\* never started, no key event was handled and no playback thread exists;
\* no start-up step is run twice.
C10_FatalStartup ==
    /\ FatalStartup =>
          /\ mainpc = "returned"
          /\ listener = "none"
          /\ evlog = <<>>
          /\ threads = <<>>
    /\ tries.mixer <= 1
    /\ tries.pool <= 1

\* C10's case: the mixer was initialised, the directories exist, and the
\* key-release pool came out empty.
C10_Witness ==
    /\ mainpc = "returned"
    /\ mixer = "init"
    /\ poolState = "error"
    /\ prepResult["keydown"].clips # <<>>
    /\ prepResult["keyup"].clips = <<>>

\* C11: the key-repeat filter sees an event before the mute check does: an
\* event dropped by the mute check has been through the filter, so its key
\* and type have a stored timestamp (its own if the filter accepted it, an
\* earlier one if the filter rejected it).
C11_DebounceBeforeMute ==
    IGNORE_KEY_REPEAT =>
        \A j \in Events :
            evlog[j].outcome = "muted" => evlog[j].k \in DOMAIN StoredIn(evlog[j].type)

\* The thread started for the event j.
ThreadOf(j) == CHOOSE i \in 1..Len(threads) : threads[i].ev = j

\* C12: the callbacks decide in the order the events arrive, each decision
\* taken before the next event's callback starts; an event has a playback
\* thread only once it is accepted and, with the filter on, once its
\* timestamp is stored; the threads are started in the order of the
\* decisions; a step of a playback thread changes neither the timestamps nor
\* a decision.
C12_DecisionBeforeDispatch ==
    /\ [](/\ \A i, j \in Events : i < j => evlog[i].outcome # "pending"
          /\ \A j \in Events :
                Dispatched(j) =>
                    /\ Accepted(j)
                    /\ IGNORE_KEY_REPEAT =>
                          /\ evlog[j].k \in DOMAIN StoredIn(evlog[j].type)
                          /\ StoredIn(evlog[j].type)[evlog[j].k] >= evlog[j].t
          /\ \A a, b \in 1..Len(threads) : a < b => threads[a].ev < threads[b].ev)
    /\ [][(\E i \in 1..Len(threads) : threads'[i] # threads[i]) =>
              UNCHANGED <<last_press, last_release, evlog>>]_vars

\* C12's case: with the filter on, two events of one key and type were
\* accepted in turn; the second was decided and its timestamp stored while
\* the thread of the first had not run yet.
C12_Witness ==
    /\ IGNORE_KEY_REPEAT
    /\ Len(evlog) = 2 /\ SameCell(1, 2)
    /\ Dispatched(1) /\ Dispatched(2)
    /\ threads[ThreadOf(1)].pc = "start"
    /\ StoredIn(evlog[2].type)[evlog[2].k] = evlog[2].t

\* C13: a callback never waits for a playback thread and never plays on the
\* listener's thread: while the process runs, a callback that has not
\* returned can take its next step unless the tray's thread holds the lock
\* for its one read or write; no step of a callback issues a play command;
\* whatever the playback threads do, every callback returns (or the process
\* ends), and an accepted event whose callback has returned has its thread.
C13_HookNeverBlocked ==
    /\ []((hook.pc # "idle" /\ Alive) => (ENABLED HookStep \/ state_lock = "tray"))
    /\ [](\A j \in Events : (Accepted(j) /\ Returned(j)) => Dispatched(j))
    /\ [][hook' # hook => \A i \in 1..Len(threads) : ~Plays(i)]_vars
    /\ (hook.pc # "idle") ~> (hook.pc = "idle" \/ ~Alive)

\* C13's case: the thread of the first event has not come back from its play
\* command, and the callback of the second event has started its own thread
\* and returned.
C13_Witness ==
    /\ Alive
    /\ Len(evlog) = 2
    /\ Dispatched(1) /\ threads[ThreadOf(1)].pc = "start"
    /\ Dispatched(2) /\ Returned(2)

\* The threads that are reading or writing _sound_enabled_flag.
FlagAccessors ==
    {x \in {"hook", "tray"} :
        \/ x = "hook" /\ hook.pc = "gate_locked"
        \/ x = "tray" /\ tray.pc \in {"get_locked", "set_locked"}}

\* C14: at most one thread is reading or writing the mute flag, and it
\* holds _state_lock; the timestamps of the filter are read and written by
\* the running callback alone, on the listener's thread: no step of the
\* tray, of main or of a playback thread changes them.
C14_MutualExclusion ==
    /\ [](/\ Cardinality(FlagAccessors) <= 1
          /\ FlagAccessors = IF state_lock = "free" THEN {} ELSE {state_lock})
    /\ [][<<last_press, last_release>>' # <<last_press, last_release>> =>
              /\ hook.pc = "repeat" /\ hook'.pc # "repeat"
              /\ UNCHANGED <<threads, muteVars, mainVars>>]_vars

\* C14's case: the tray's thread is writing the flag under the lock while a
\* callback waits for the lock to read it.
C14_Witness ==
    /\ tray.pc = "set_locked"
    /\ state_lock = "tray"
    /\ hook.pc = "gate"
    /\ Len(threads) > 0

\* A playback thread is started in this step.
Starts == Len(threads') > Len(threads)

\* C15, as claimed: no thread at all holds _state_lock at the moment a
\* playback thread is started or a play command is issued.
C15_LockFreeAtDispatch ==
    [][(Starts \/ \E i \in 1..Len(threads) : Plays(i)) => state_lock = "free"]_vars

\* C15, amended: the thread that starts a playback thread, and the thread
\* that issues a play command, does not hold _state_lock when it does so; the
\* lock is held only by a thread at its one read or one write of the flag,
\* whose next step releases it; a lock that is held is released (or the
\* process ends).
C15_LockScope ==
    /\ [](/\ state_lock \in {"free", "hook", "tray"}
          /\ (state_lock = "hook") => (hook.pc = "gate_locked")
          /\ (state_lock = "tray") => (tray.pc \in {"get_locked", "set_locked"}))
    /\ [][/\ Starts => (state_lock # "hook" /\ state_lock' # "hook")
          /\ (state_lock = "hook" /\ hook' # hook) => state_lock' = "free"
          /\ (state_lock = "tray" /\ tray' # tray) => state_lock' = "free"]_vars
    /\ (state_lock # "free") ~> (state_lock = "free" \/ ~Alive)

\* C15's case: a callback has read the flag, released the lock and started
\* its thread while the tray's thread held the lock; the play command of an
\* earlier thread was issued too.
C15_Witness ==
    /\ state_lock = "tray"
    /\ Len(threads) = 2
    /\ threads[1].pc = "played"
    /\ threads[2].pc = "start"
    /\ hook.pc = "idle"

\* The playback threads in flight: started, their play command not done.
InFlight == {i \in 1..Len(threads) : threads[i].pc = "start"}

\* C16: the number of playback threads in flight at once stays under a
\* fixed bound however many key events come: with MaxEvents events, under
\* MaxEvents.
C16_BoundedInFlight == Cardinality(InFlight) < MaxEvents

\* The step changes at most the entry k of the dictionary d.
OnlyEntry(d, dNext, k) ==
    /\ DOMAIN dNext \subseteq DOMAIN d \cup {k}
    /\ \A x \in DOMAIN d : x # k => (x \in DOMAIN dNext /\ dNext[x] = d[x])

\* C17: a step that changes a press timestamp is a step of a press
\* callback, changes the entry of its own key only and leaves the release
\* timestamps alone, and the other way round; whether the filter rejects an
\* event is decided by the last accepted event of the same key and type
\* alone.
C17_IndependentCells ==
    /\ [][/\ last_press' # last_press =>
                /\ hook.type = "press"
                /\ OnlyEntry(last_press, last_press', KeyId(hook.key))
                /\ last_release' = last_release
          /\ last_release' # last_release =>
                /\ hook.type = "release"
                /\ OnlyEntry(last_release, last_release', KeyId(hook.key))
                /\ last_press' = last_press]_vars
    /\ [](IGNORE_KEY_REPEAT =>
            \A j \in Events :
                Decided(j) =>
                    (Accepted(j) <=> evlog[j].t - LastAcceptedBefore(j) >= MIN_INTERVAL))

\* C17's case: three events less than MIN_INTERVAL apart, a press and a
\* release of one key and a press of another, all accepted, each with its
\* own timestamp.
C17_Witness ==
    /\ Len(evlog) = 3
    /\ \A i, j \in Events : i < j => ~SameCell(i, j)
    /\ \A j \in Events :
          /\ Accepted(j)
          /\ evlog[j].k \in DOMAIN StoredIn(evlog[j].type)
          /\ StoredIn(evlog[j].type)[evlog[j].k] = evlog[j].t
    /\ evlog[3].t - evlog[1].t < MIN_INTERVAL + MIN_INTERVAL
    /\ \E i, j \in Events : evlog[i].k = evlog[j].k /\ evlog[i].type # evlog[j].type
    /\ \E i, j \in Events : evlog[i].k # evlog[j].k /\ evlog[i].type = evlog[j].type

\* The playback threads started for the event j.
ThreadsOf(j) == {i \in 1..Len(threads) : threads[i].ev = j}

\* The category of an event type: presses play keydown/, releases keyup/.
CategoryOf(type) == IF type = "press" THEN "keydown" ELSE "keyup"

\* The thread i has issued its play command, for a clip of the pool of the
\* category c.
PlayedFrom(i, c) ==
    /\ threads[i].clip # <<>>
    /\ threads[i].clip[1] = c
    /\ \E n \in 1..Len(PoolClips(c)) : PoolClips(c)[n].sound = threads[i].clip

\* C18: an accepted event whose callback has returned has exactly one
\* playback thread, any other event none; a thread issues one play command
\* and no second one, for a clip of the pool of its event's category; with
\* the filter off no event is rejected as a repeat, an event that arrives
\* with sound enabled is not dropped, and no timestamp is stored.
C18_OnePlayPerAccepted ==
    /\ [](/\ \A j \in Events :
                Cardinality(ThreadsOf(j)) = IF Accepted(j) /\ Returned(j) THEN 1 ELSE 0
          /\ \A i \in 1..Len(threads) :
                /\ threads[i].ev \in Events
                /\ threads[i].pc \in {"start", "played", "failed"}
                /\ threads[i].pc # "start" =>
                      PlayedFrom(i, CategoryOf(evlog[threads[i].ev].type))
          /\ ~IGNORE_KEY_REPEAT =>
                /\ last_press = <<>> /\ last_release = <<>>
                /\ \A j \in Events :
                      /\ evlog[j].outcome # "repeat"
                      /\ evlog[j].win = "enabled" => evlog[j].outcome \in {"pending", "accepted"})
    /\ [][\A i \in 1..Len(threads) : threads[i].pc # "start" => threads'[i] = threads[i]]_vars

\* C18's case: with the filter off, a press and a release, in either order,
\* have each played a clip of their own pool, and the pools differ.
C18_Witness ==
    /\ ~IGNORE_KEY_REPEAT
    /\ Len(threads) = 2
    /\ evlog[threads[1].ev].type # evlog[threads[2].ev].type
    /\ threads[1].pc = "played" /\ threads[2].pc = "played"
    /\ threads[1].clip[1] # threads[2].clip[1]

\* C19: when no toggle is under way, sound is enabled iff the number of
\* toggles made is even; the flag changes only in the write of
\* set_sound_enabled, called by the toggle, which sets it to the negation of
\* its value; no step of a callback or of a playback thread changes it.
C19_ToggleParity ==
    /\ [](tray.pc = "idle" => (sound_enabled_flag <=> toggles % 2 = 0))
    /\ [][sound_enabled_flag' # sound_enabled_flag =>
              /\ tray.pc = "set_locked" /\ tray'.pc = "idle"
              /\ sound_enabled_flag' = tray.val
              /\ UNCHANGED <<hookVars, threads>>]_vars
    /\ [][(tray.pc = "set_locked" /\ tray'.pc = "idle") =>
              sound_enabled_flag' = ~sound_enabled_flag]_vars

\* C19's case: two toggles are done and sound is enabled again, an event
\* having been dropped in between and a playback thread started.
C19_Witness ==
    /\ toggles = 2
    /\ tray.pc = "idle"
    /\ sound_enabled_flag
    /\ \E j \in Events : evlog[j].outcome = "muted"
    /\ threads # <<>>

====
